---- MODULE Spec2Model ----
(***************************************************************************)
(* Model of the two test scripts of usnistgov/hevx:                        *)
(*   test/build-vulkan-sdk.py  (build, build_known_good, build_repo,       *)
(*                              merge_trees)                               *)
(*   test/create-report.py     (create_report, update_index)               *)
(* The build driver is a call stack of build_known_good / build_repo       *)
(* frames over a shared `built` list; external commands return a           *)
(* nondeterministic exit status.                                           *)
(***************************************************************************)
EXTENDS Integers, Sequences, FiniteSets, TLC

\* ------------------------------------------------------------------ bounds
MaxLen == 2          \* descriptors in the top-level manifest
MaxNestedLen == 1    \* descriptors in a nested manifest
MaxDeps == 2         \* entries of one `deps` list
MaxPrebuild == 2     \* commands of one `prebuild` list
MaxPasses == 2       \* passes of the `while repos` loop that are counted
MaxRuns == 3         \* runs of create-report.py
MaxDate == 2         \* distinct StartDateTime values
MaxCount == 1        \* passed / failed tests of one run
MaxDepth == 1        \* levels of subdirectories below the files of the source tree

\* ------------------------------------------------------- manifests (input)
\* "A" and "B" are listed by the top-level manifest; "C" is listed by a nested
\* manifest only, or named in a deps list
TopNames == {"A", "B"}
Names == TopNames \cup {"C"}
NestedDir == "A"     \* the one checkout that may carry scripts/known_good.json
TopDir == "VulkanTools"

Range(s) == {s[j] : j \in 1..Len(s)}

\* the deps a descriptor named n may declare
DepSets(n) == {S \in SUBSET (Names \ {n}) : Cardinality(S) <= MaxDeps}

Desc(n, p, h, d, k) == [name |-> n, plat |-> p, hasDeps |-> h, deps |-> d, prebuild |-> k]

\* "A" declares build_platforms ['linux'], the others declare none
PlatOf(n) == IF n = "A" THEN "linux" ELSE "absent"

\* a prebuild list is declared by "A" only
PrebuildOf(n) == IF n = "A" THEN 0..MaxPrebuild ELSE {0}

\* the two descriptors the filter of lines 27-33 drops
Dropped == {Desc("B", "other", FALSE, {}, 0), Desc(TopDir, "absent", FALSE, {}, 0)}

\* descriptors a top-level manifest may hold
TopDescs ==
  Dropped
  \cup UNION {{Desc(n, PlatOf(n), FALSE, {}, k) : k \in PrebuildOf(n)} : n \in TopNames}
  \cup UNION {{Desc(n, PlatOf(n), TRUE, d, 0) : d \in DepSets(n)} : n \in TopNames}

\* descriptors a nested manifest may hold
NestedDescs ==
  {Desc("B", "absent", FALSE, {}, 0), Desc("C", "absent", FALSE, {}, 0),
   Desc("C", "absent", TRUE, {}, 0)}

RECURSIVE SeqsUpTo(_, _)
SeqsUpTo(S, n) ==
  IF n = 0 THEN {<<>>}
  ELSE LET shorter == SeqsUpTo(S, n - 1)
       IN shorter \cup {Append(s, x) : s \in shorter, x \in S}

UniqueNames(s) == \A a, b \in 1..Len(s) : a # b => s[a].name # s[b].name

Manifests(S, n) == {s \in SeqsUpTo(S, n) : UniqueNames(s)}

NoManifest == [exists |-> FALSE, repos |-> <<>>]
File(s) == [exists |-> TRUE, repos |-> s]

NoDesc == Desc("", "absent", FALSE, {}, 0)

\* ------------------------------------------------------------------- state
VARIABLES
  topManifest,     \* VulkanTools/scripts/known_good.json
  nestedManifest,  \* <NestedDir>/scripts/known_good.json
  pcMain,          \* position of build()
  knownGood,       \* value returned to build() by build_known_good
  stack,           \* call stack of build_known_good / build_repo frames
  built,           \* the shared `built` / `previously_built` list
  cloned,          \* checkout directories that exist
  buildDirs,       \* <sub_dir>/build directories that exist
  exitCode,        \* -1 while running, else the exit status of the process
  log,             \* history: every step taken, with its exit status
  calls,           \* history: every invocation of build_repo
  returned,        \* history: every build_known_good frame that returned
  \* create-report.py
  indexFile,       \* <html_dir>/index.html
  reportFiles,     \* the per-run detail pages written, by StartDateTime
  rpc,             \* position of create_report()
  run,             \* what the current run finds on disk
  rexit,           \* exit status of the current / last run
  wrote,           \* the current run has written a file
  errLogged,       \* the current run has logged an error
  runs,            \* runs started
  rows,            \* history: the rows update_index was asked to add
  \* merge_trees
  srcTree,         \* the tree under src_dir, path -> "dir" or file content
  dstTree,         \* the tree under dst_dir
  mstack,          \* call stack of merge_trees
  mstatus          \* "running", "done", or "error" (uncaught exception)

buildVars == <<topManifest, nestedManifest, pcMain, knownGood, stack, built,
               cloned, buildDirs, exitCode, log, calls, returned>>
reportVars == <<indexFile, reportFiles, rpc, run, rexit, wrote, errLogged,
                runs, rows>>
mergeVars == <<srcTree, dstTree, mstack, mstatus>>

vars == <<buildVars, reportVars, mergeVars>>

Running == -1
RCs == {0, 1}

ManifestAt(dir) ==
  IF dir = TopDir THEN topManifest
  ELSE IF dir = NestedDir THEN nestedManifest
  ELSE NoManifest

\* ---------------------------------------------------------------- helpers
\* lines 27-33: the build_platforms / VulkanTools filter
Selected(r) ==
  IF r.plat # "absent" THEN r.plat = "linux" ELSE r.name # TopDir

PlatformFilter(repos) == SelectSeq(repos, Selected)

\* lines 41, 47, 64: repos = [r for r in repos if r.name not in built]
NotBuilt(repos, b) == SelectSeq(repos, LAMBDA r : r.name \notin Range(b))

\* lines 56-59: ready stays True only if every dep's repo_name is in built
ReadyMutant(repo, b) == TRUE
ReadyInverted(repo, b) == \A d \in repo.deps : d \notin Range(b)
ReadyAny(repo, b) == repo.deps = {} \/ \E d \in repo.deps : d \in Range(b)
Ready(repo, b) == \A d \in repo.deps : d \in Range(b)

\* line 44: 'deps' not in repo
InFirstLoopMutant(repo) == TRUE
InFirstLoop(repo) == ~repo.hasDeps

\* the `!= 0` test that follows every subprocess.call
FailedMutant(rc) == FALSE
Failed(rc) == rc # 0

\* lines 90-100: what follows the checkout / the k-th prebuild command
AfterCheckout(repo) == IF repo.prebuild > 0 THEN "prebuild" ELSE "nested"

AfterPrebuildMutant(repo, k) == IF k < repo.prebuild THEN "prebuild" ELSE "clone"
AfterPrebuild(repo, k) == IF k < repo.prebuild THEN "prebuild" ELSE "nested"

KGFrame(dir, parent) ==
  [fn |-> "kg", pc |-> "load", dir |-> dir, repos |-> <<>>, work |-> <<>>,
   i |-> 0, mine |-> <<>>, passes |-> 0, repo |-> NoDesc, k |-> 0,
   inv |-> parent]

BRFrame(repo, inv) ==
  [fn |-> "br", pc |-> "clone", dir |-> repo.name, repos |-> <<>>, work |-> <<>>,
   i |-> 0, mine |-> <<>>, passes |-> 0, repo |-> repo, k |-> 0,
   inv |-> inv]

Depth == Len(stack)
Top == stack[Depth]
Active == exitCode = Running /\ Depth > 0
SetTop(f) == [stack EXCEPT ![Depth] = f]
Pop == SubSeq(stack, 1, Depth - 1)

Entry(cmd, n, inv, rc) == [cmd |-> cmd, n |-> n, inv |-> inv, rc |-> rc]

\* sys.exit(1), or an uncaught exception: the process ends with status 1
Exit1 == exitCode' = 1 /\ pcMain' = "exit"

\* ------------------------------------------------------------------- Init
NoRun == [testing |-> FALSE, date |-> 0, passed |-> 0, failed |-> 0]

ReportIdle ==
  /\ indexFile = [exists |-> FALSE, content |-> <<>>]
  /\ reportFiles = {}
  /\ rpc = "off"
  /\ run = NoRun
  /\ rexit = 0
  /\ wrote = FALSE
  /\ errLogged = FALSE
  /\ runs = 0
  /\ rows = <<>>

MergeIdle ==
  /\ srcTree = <<>>
  /\ dstTree = <<>>
  /\ mstack = <<>>
  /\ mstatus = "off"

BuildIdle ==
  /\ topManifest = NoManifest
  /\ nestedManifest = NoManifest
  /\ pcMain = "off"
  /\ knownGood = "unset"
  /\ stack = <<>>
  /\ built = <<>>
  /\ cloned = {}
  /\ buildDirs = {}
  /\ exitCode = 0
  /\ log = <<>>
  /\ calls = <<>>
  /\ returned = <<>>

Init ==
  /\ ReportIdle /\ MergeIdle
  /\ topManifest \in {NoManifest} \cup {File(s) : s \in Manifests(TopDescs, MaxLen)}
  /\ nestedManifest \in {NoManifest} \cup {File(s) : s \in Manifests(NestedDescs, MaxNestedLen)}
  /\ pcMain = "clone"
  /\ knownGood = "unset"
  /\ stack = <<>>
  /\ built = <<>>
  /\ cloned = {}
  /\ buildDirs = {}
  /\ exitCode = Running
  /\ log = <<>>
  /\ calls = <<>>
  /\ returned = <<>>

\* ---------------------------------------------------------------- build()
\* lines 153-158
MainClone ==
  /\ exitCode = Running /\ pcMain = "clone"
  /\ \E rc \in RCs :
       /\ log' = Append(log, Entry("clone", 0, 0, rc))
       /\ IF Failed(rc)
          THEN Exit1 /\ UNCHANGED cloned
          ELSE /\ cloned' = cloned \cup {TopDir}
               /\ pcMain' = "update"
               /\ UNCHANGED exitCode
  /\ UNCHANGED <<reportVars, mergeVars, topManifest, nestedManifest, knownGood, stack, built,
                 buildDirs, calls, returned>>

\* lines 160-161
MainUpdate ==
  /\ exitCode = Running /\ pcMain = "update"
  /\ \E rc \in RCs :
       /\ log' = Append(log, Entry("update", 0, 0, rc))
       /\ IF Failed(rc)
          THEN Exit1
          ELSE pcMain' = "known_good" /\ UNCHANGED exitCode
  /\ UNCHANGED <<reportVars, mergeVars, topManifest, nestedManifest, knownGood, stack, built,
                 cloned, buildDirs, calls, returned>>

\* line 163: known_good = build_known_good(args, 'VulkanTools')
MainCallKnownGood ==
  /\ exitCode = Running /\ pcMain = "known_good" /\ Depth = 0
  /\ stack' = <<KGFrame(TopDir, 0)>>
  /\ pcMain' = "wait"
  /\ log' = Append(log, Entry("known_good", 0, 0, 0))
  /\ UNCHANGED <<reportVars, mergeVars, topManifest, nestedManifest, knownGood, built, cloned,
                 buildDirs, exitCode, calls, returned>>

\* lines 165-166
MainMkdir ==
  /\ exitCode = Running /\ pcMain = "mkdir"
  /\ log' = Append(log, Entry("mkdir", 0, 0, 0))
  /\ IF TopDir \in buildDirs
     THEN Exit1 /\ UNCHANGED buildDirs
     ELSE /\ buildDirs' = buildDirs \cup {TopDir}
          /\ pcMain' = "configure"
          /\ UNCHANGED exitCode
  /\ UNCHANGED <<reportVars, mergeVars, topManifest, nestedManifest, knownGood, stack, built,
                 cloned, calls, returned>>

\* lines 168-178: known_good.install_names raises AttributeError on None
MainConfigure ==
  /\ exitCode = Running /\ pcMain = "configure"
  /\ IF knownGood = "None"
     THEN Exit1 /\ UNCHANGED log
     ELSE \E rc \in RCs :
            /\ log' = Append(log, Entry("configure", 0, 0, rc))
            /\ IF Failed(rc)
               THEN Exit1
               ELSE pcMain' = "install" /\ UNCHANGED exitCode
  /\ UNCHANGED <<reportVars, mergeVars, topManifest, nestedManifest, knownGood, stack, built,
                 cloned, buildDirs, calls, returned>>

\* lines 180-185
MainInstall ==
  /\ exitCode = Running /\ pcMain = "install"
  /\ \E rc \in RCs :
       /\ log' = Append(log, Entry("install", 0, 0, rc))
       /\ IF Failed(rc)
          THEN Exit1
          ELSE pcMain' = "post" /\ UNCHANGED exitCode
  /\ UNCHANGED <<reportVars, mergeVars, topManifest, nestedManifest, knownGood, stack, built,
                 cloned, buildDirs, calls, returned>>

\* lines 187-211: the normalisation of the install tree; it works on what the
\* install steps left on disk and either completes or raises
MainPost ==
  /\ exitCode = Running /\ pcMain = "post"
  /\ \E ok \in BOOLEAN :
       IF ok THEN pcMain' = "done" /\ exitCode' = 0 ELSE Exit1
  /\ UNCHANGED <<reportVars, mergeVars, topManifest, nestedManifest, knownGood, stack, built,
                 cloned, buildDirs, log, calls, returned>>

\* ------------------------------------------------------ build_known_good()
\* a build_known_good frame returns `value` to its caller
Return(value) ==
  /\ returned' = Append(returned, Top)
  /\ stack' = Pop
  /\ IF Depth = 1
     THEN pcMain' = "mkdir" /\ knownGood' = value
     ELSE UNCHANGED <<pcMain, knownGood>>

\* lines 21-41
KGLoad ==
  /\ Active /\ Top.fn = "kg" /\ Top.pc = "load"
  /\ IF ~ManifestAt(Top.dir).exists
     THEN Return("None")
     ELSE LET w == NotBuilt(PlatformFilter(ManifestAt(Top.dir).repos), built)
          IN /\ stack' = SetTop([Top EXCEPT !.pc = "for", !.repos = w,
                                            !.work = w, !.i = 1])
             /\ UNCHANGED <<pcMain, knownGood, returned>>
  /\ UNCHANGED <<reportVars, mergeVars, topManifest, nestedManifest, built, cloned, buildDirs,
                 exitCode, log, calls>>

\* the frame on top calls build_repo(args, repo, built)
CallBuildRepo(repo) ==
  /\ calls' = Append(calls, [repo |-> repo, parent |-> Top.inv, at |-> Len(log)])
  /\ stack' = Append(SetTop([Top EXCEPT !.mine = Append(@, repo)]),
                     BRFrame(repo, Len(calls) + 1))

\* lines 43-45, a descriptor without `deps`
KGForBuild ==
  /\ Active /\ Top.fn = "kg" /\ Top.pc = "for" /\ Top.i <= Len(Top.repos)
  /\ InFirstLoop(Top.repos[Top.i])
  /\ CallBuildRepo(Top.repos[Top.i])
  /\ UNCHANGED <<reportVars, mergeVars, topManifest, nestedManifest, pcMain, knownGood, built,
                 cloned, buildDirs, exitCode, log, returned>>

\* lines 43-44, a descriptor with `deps`
KGForSkip ==
  /\ Active /\ Top.fn = "kg" /\ Top.pc = "for" /\ Top.i <= Len(Top.repos)
  /\ ~InFirstLoop(Top.repos[Top.i])
  /\ stack' = SetTop([Top EXCEPT !.i = @ + 1])
  /\ UNCHANGED <<reportVars, mergeVars, topManifest, nestedManifest, pcMain, knownGood, built,
                 cloned, buildDirs, exitCode, log, calls, returned>>

\* line 47
KGForEnd ==
  /\ Active /\ Top.fn = "kg" /\ Top.pc = "for" /\ Top.i > Len(Top.repos)
  /\ stack' = SetTop([Top EXCEPT !.pc = "while", !.repos = NotBuilt(@, built)])
  /\ UNCHANGED <<reportVars, mergeVars, topManifest, nestedManifest, pcMain, knownGood, built,
                 cloned, buildDirs, exitCode, log, calls, returned>>

\* line 54, repos not empty
KGWhileEnter ==
  /\ Active /\ Top.fn = "kg" /\ Top.pc = "while" /\ Top.repos # <<>>
  /\ stack' = SetTop([Top EXCEPT !.pc = "pass", !.i = 1])
  /\ UNCHANGED <<reportVars, mergeVars, topManifest, nestedManifest, pcMain, knownGood, built,
                 cloned, buildDirs, exitCode, log, calls, returned>>

\* lines 54 and 71, repos empty
KGReturn ==
  /\ Active /\ Top.fn = "kg" /\ Top.pc = "while" /\ Top.repos = <<>>
  /\ Return("namespace")
  /\ UNCHANGED <<reportVars, mergeVars, topManifest, nestedManifest, built, cloned, buildDirs,
                 exitCode, log, calls>>

\* lines 55-62, the descriptor is ready
KGPassBuild ==
  /\ Active /\ Top.fn = "kg" /\ Top.pc = "pass" /\ Top.i <= Len(Top.repos)
  /\ Ready(Top.repos[Top.i], built)
  /\ CallBuildRepo(Top.repos[Top.i])
  /\ UNCHANGED <<reportVars, mergeVars, topManifest, nestedManifest, pcMain, knownGood, built,
                 cloned, buildDirs, exitCode, log, returned>>

\* lines 55-61, the descriptor is not ready
KGPassSkip ==
  /\ Active /\ Top.fn = "kg" /\ Top.pc = "pass" /\ Top.i <= Len(Top.repos)
  /\ ~Ready(Top.repos[Top.i], built)
  /\ stack' = SetTop([Top EXCEPT !.i = @ + 1])
  /\ UNCHANGED <<reportVars, mergeVars, topManifest, nestedManifest, pcMain, knownGood, built,
                 cloned, buildDirs, exitCode, log, calls, returned>>

\* line 64
KGPassEnd ==
  /\ Active /\ Top.fn = "kg" /\ Top.pc = "pass" /\ Top.i > Len(Top.repos)
  /\ stack' = SetTop([Top EXCEPT !.pc = "while", !.repos = NotBuilt(@, built),
                                 !.passes = IF @ < MaxPasses THEN @ + 1 ELSE @])
  /\ UNCHANGED <<reportVars, mergeVars, topManifest, nestedManifest, pcMain, knownGood, built,
                 cloned, buildDirs, exitCode, log, calls, returned>>

\* ------------------------------------------------------------ build_repo()
\* one external command of the build_repo frame on top: it is logged, a
\* failure ends the process, a success moves the frame to `next`
Command(cmd, n, rcs, next, k) ==
  \E rc \in rcs :
    /\ log' = Append(log, Entry(cmd, n, Top.inv, rc))
    /\ IF Failed(rc)
       THEN Exit1 /\ UNCHANGED stack
       ELSE /\ stack' = SetTop([Top EXCEPT !.pc = next, !.k = k])
            /\ UNCHANGED <<pcMain, exitCode>>

\* lines 76-81: git refuses to clone into a directory that exists
BRClone ==
  /\ Active /\ Top.fn = "br" /\ Top.pc = "clone"
  /\ Command("clone", 0, IF Top.dir \in cloned THEN {1} ELSE RCs, "checkout", 0)
  /\ cloned' = IF exitCode' = Running THEN cloned \cup {Top.dir} ELSE cloned
  /\ UNCHANGED <<reportVars, mergeVars, topManifest, nestedManifest, knownGood, built, buildDirs,
                 calls, returned>>

\* lines 83-88
BRCheckout ==
  /\ Active /\ Top.fn = "br" /\ Top.pc = "checkout"
  /\ Command("checkout", 0, RCs, AfterCheckout(Top.repo), 1)
  /\ UNCHANGED <<reportVars, mergeVars, topManifest, nestedManifest, knownGood, built, cloned,
                 buildDirs, calls, returned>>

\* lines 90-98
BRPrebuild ==
  /\ Active /\ Top.fn = "br" /\ Top.pc = "prebuild"
  /\ Command("prebuild", Top.k, RCs, AfterPrebuild(Top.repo, Top.k), Top.k + 1)
  /\ UNCHANGED <<reportVars, mergeVars, topManifest, nestedManifest, knownGood, built, cloned,
                 buildDirs, calls, returned>>

\* line 100: build_known_good(args, repo.sub_dir, built)
BRNested ==
  /\ Active /\ Top.fn = "br" /\ Top.pc = "nested"
  /\ log' = Append(log, Entry("known_good", 0, Top.inv, 0))
  /\ stack' = Append(SetTop([Top EXCEPT !.pc = "mkdir"]), KGFrame(Top.dir, Top.inv))
  /\ UNCHANGED <<reportVars, mergeVars, topManifest, nestedManifest, pcMain, knownGood, built,
                 cloned, buildDirs, exitCode, calls, returned>>

\* lines 102-103: os.mkdir raises when the directory exists
BRMkdir ==
  /\ Active /\ Top.fn = "br" /\ Top.pc = "mkdir"
  /\ log' = Append(log, Entry("mkdir", 0, Top.inv, 0))
  /\ IF Top.dir \in buildDirs
     THEN Exit1 /\ UNCHANGED <<stack, buildDirs>>
     ELSE /\ buildDirs' = buildDirs \cup {Top.dir}
          /\ stack' = SetTop([Top EXCEPT !.pc = "configure"])
          /\ UNCHANGED <<pcMain, exitCode>>
  /\ UNCHANGED <<reportVars, mergeVars, topManifest, nestedManifest, knownGood, built, cloned,
                 calls, returned>>

\* lines 105-123
BRConfigure ==
  /\ Active /\ Top.fn = "br" /\ Top.pc = "configure"
  /\ Command("configure", 0, RCs, "install", 0)
  /\ UNCHANGED <<reportVars, mergeVars, topManifest, nestedManifest, knownGood, built, cloned,
                 buildDirs, calls, returned>>

\* lines 125-130
BRInstall ==
  /\ Active /\ Top.fn = "br" /\ Top.pc = "install"
  /\ Command("install", 0, RCs, "return", 0)
  /\ UNCHANGED <<reportVars, mergeVars, topManifest, nestedManifest, knownGood, built, cloned,
                 buildDirs, calls, returned>>

\* line 132 and the caller's built.append(...) of line 45 or 62
BRReturn ==
  /\ Active /\ Top.fn = "br" /\ Top.pc = "return"
  /\ built' = Append(built, Top.repo.name)
  /\ stack' = [Pop EXCEPT ![Depth - 1].i = @ + 1]
  /\ UNCHANGED <<reportVars, mergeVars, topManifest, nestedManifest, pcMain, knownGood, cloned,
                 buildDirs, exitCode, log, calls, returned>>

Next ==
  \/ MainClone \/ MainUpdate \/ MainCallKnownGood \/ MainMkdir
  \/ MainConfigure \/ MainInstall \/ MainPost
  \/ KGLoad \/ KGForBuild \/ KGForSkip \/ KGForEnd
  \/ KGWhileEnter \/ KGReturn \/ KGPassBuild \/ KGPassSkip \/ KGPassEnd
  \/ BRClone \/ BRCheckout \/ BRPrebuild \/ BRNested \/ BRMkdir
  \/ BRConfigure \/ BRInstall \/ BRReturn

Spec == Init /\ [][Next]_vars

\* the interpreter runs the single thread until the process ends
FairSpec == Spec /\ WF_vars(Next)

\* ========================================================= create-report.py
\* file contents are sequences of tokens; a token is a newline, indentation,
\* the sentinel comment, a table row, or other text
Tok(t, d, np, nf) == [t |-> t, date |-> d, passed |-> np, failed |-> nf]
NL == Tok("nl", 0, 0, 0)
WS == Tok("ws", 0, 0, 0)
TEXT == Tok("text", 0, 0, 0)
SENTINEL == Tok("sentinel", 0, 0, 0)

\* lines 40-57, runs of plain lines folded into one; the last line has no
\* newline
INDEX_PAGE ==
  <<TEXT, NL, WS, TEXT, NL, WS, TEXT, NL,
    WS, SENTINEL, NL,
    WS, TEXT, NL, WS, TEXT, NL, TEXT>>

\* line 59: six blanks and the row; the template ends without a newline
INDEX_ITEM(d, np, nf) == <<WS, Tok("row", d, np, nf)>>

\* fh_in.readlines(): every line keeps its newline
RECURSIVE ReadLines(_)
ReadLines(c) ==
  IF c = <<>> THEN <<>>
  ELSE LET ends == {j \in 1..Len(c) : c[j] = NL}
           n == IF ends = {} THEN Len(c)
                ELSE CHOOSE j \in ends : \A m \in ends : j <= m
       IN <<SubSeq(c, 1, n)>> \o ReadLines(SubSeq(c, n + 1, Len(c)))

\* line 110: re.search of the sentinel text in the line
HasSentinel(line) == \E j \in 1..Len(line) : line[j] = SENTINEL

\* lines 109-114
RECURSIVE WriteLines(_, _)
WriteLines(lines, item) ==
  IF lines = <<>> THEN <<>>
  ELSE (IF HasSentinel(Head(lines)) THEN item \o Head(lines) ELSE Head(lines))
       \o WriteLines(Tail(lines), item)

\* lines 101-118: the temporary file replaces the index
update_index(content, d, np, nf) ==
  WriteLines(ReadLines(content), INDEX_ITEM(d, np, nf))

InitReport ==
  /\ BuildIdle /\ MergeIdle
  /\ indexFile = [exists |-> FALSE, content |-> <<>>]
  /\ reportFiles = {}
  /\ rpc = "idle"
  /\ run = NoRun
  /\ rexit = 0
  /\ wrote = FALSE
  /\ errLogged = FALSE
  /\ runs = 0
  /\ rows = <<>>

\* lines 162-164: the script is started; what it will find is drawn here
RStart ==
  /\ rpc = "idle" /\ runs < MaxRuns
  /\ \E t \in BOOLEAN, d \in 1..MaxDate, np \in 0..MaxCount, nf \in 0..MaxCount :
       run' = [testing |-> t, date |-> d, passed |-> np, failed |-> nf]
  /\ rpc' = "check"
  /\ rexit' = Running
  /\ wrote' = FALSE
  /\ errLogged' = FALSE
  /\ runs' = runs + 1
  /\ UNCHANGED <<buildVars, mergeVars, indexFile, reportFiles, rows>>

\* lines 123-126
RCheck ==
  /\ rpc = "check"
  /\ IF ~run.testing
     THEN errLogged' = TRUE /\ rexit' = 1 /\ rpc' = "idle"
     ELSE rpc' = "report" /\ UNCHANGED <<errLogged, rexit>>
  /\ UNCHANGED <<buildVars, mergeVars, indexFile, reportFiles, run, wrote,
                 runs, rows>>

\* lines 128-139: reading Test.xml raises when the output is not there
RWriteReport ==
  /\ rpc = "report"
  /\ \E ok \in BOOLEAN :
       IF ok
       THEN /\ reportFiles' = reportFiles \cup {run.date}
            /\ wrote' = TRUE
            /\ rpc' = "index"
            /\ UNCHANGED rexit
       ELSE /\ rexit' = 1 /\ rpc' = "idle"
            /\ UNCHANGED <<reportFiles, wrote>>
  /\ UNCHANGED <<buildVars, mergeVars, indexFile, run, errLogged, runs, rows>>

\* lines 141-145
RCreateIndex ==
  /\ rpc = "index"
  /\ IF ~indexFile.exists
     THEN indexFile' = [exists |-> TRUE, content |-> INDEX_PAGE]
     ELSE UNCHANGED indexFile
  /\ rpc' = "update"
  /\ UNCHANGED <<buildVars, mergeVars, reportFiles, run, rexit, wrote,
                 errLogged, runs, rows>>

\* line 146
RUpdateIndex ==
  /\ rpc = "update"
  /\ indexFile' = [indexFile EXCEPT
                     !.content = update_index(@, run.date, run.passed, run.failed)]
  /\ rows' = Append(rows, Tok("row", run.date, run.passed, run.failed))
  /\ rpc' = "idle"
  /\ rexit' = 0
  /\ UNCHANGED <<buildVars, mergeVars, reportFiles, run, wrote, errLogged, runs>>

NextReport == RStart \/ RCheck \/ RWriteReport \/ RCreateIndex \/ RUpdateIndex

SpecReport == InitReport /\ [][NextReport]_vars

\* the rows of the index, in file order
FileRows == SelectSeq(indexFile.content, LAMBDA x : x.t = "row")

SentinelAt == {j \in 1..Len(indexFile.content) : indexFile.content[j] = SENTINEL}

\* C4: every update_index call adds one row, the sentinel stays and occurs
\* once, the rows stand in the order they were added, and only whitespace
\* lies between the newest row and the sentinel.
C4_RowBeforeSentinel ==
  (indexFile.exists /\ rpc = "idle") =>
    /\ Cardinality(SentinelAt) = 1
    /\ FileRows = rows
    /\ rows # <<>> =>
         \E j \in 1..Len(indexFile.content) :
           /\ indexFile.content[j] = rows[Len(rows)]
           /\ \E s \in SentinelAt :
                /\ j < s
                /\ \A m \in (j + 1)..(s - 1) : indexFile.content[m] = WS

\* ============================================================= merge_trees
FileNames == {"f", "g"}
Contents == {"x", "y"}

\* the trees of depth at most d, as functions from relative paths to "dir"
\* or to the content of a file
Under(n, t) == [q \in {<<n>> \o path : path \in DOMAIN t} |-> t[Tail(q)]]

RECURSIVE Trees(_)
Trees(d) ==
  LET Leaf(n) == {<<>>} \cup {(<<n>> :> c) : c \in Contents}
      Sub(n) == IF d = 0 THEN Leaf(n)
                ELSE Leaf(n) \cup {Under(n, t) : t \in Trees(d - 1)}
  IN {(<<>> :> "dir") @@ a @@ b : a \in Sub("f"), b \in Sub("g")}

IsDir(t, path) == path \in DOMAIN t /\ t[path] = "dir"

\* os.listdir
ListDir(t, path) == {n \in FileNames : Append(path, n) \in DOMAIN t}

Parent(path) == SubSeq(path, 1, Len(path) - 1)

MFrame(s, d) == [src |-> s, dst |-> d, todo |-> ListDir(srcTree, s)]

InitMerge ==
  /\ BuildIdle /\ ReportIdle
  /\ srcTree \in Trees(MaxDepth)
  /\ dstTree = (<<>> :> "dir")
  /\ mstack = <<[src |-> <<>>, dst |-> <<>>, todo |-> ListDir(srcTree, <<>>)]>>
  /\ mstatus = "running"

MTop == mstack[Len(mstack)]

\* lines 135-138: the next name is a directory
MergeDir ==
  /\ mstatus = "running" /\ mstack # <<>>
  /\ \E n \in MTop.todo :
       /\ IsDir(srcTree, Append(MTop.src, n))
       /\ mstack' = Append([mstack EXCEPT ![Len(mstack)].todo = @ \ {n}],
                           MFrame(Append(MTop.src, n), Append(MTop.dst, n)))
  /\ UNCHANGED <<buildVars, reportVars, srcTree, dstTree, mstatus>>

\* lines 135-140: the next name is a file; shutil.copy(src_name, dst_dir)
\* copies into dst_dir when that is a directory and onto the path dst_dir
\* otherwise, and raises when that path cannot be written
MergeFile ==
  /\ mstatus = "running" /\ mstack # <<>>
  /\ \E n \in MTop.todo :
       LET from == Append(MTop.src, n)
           target == IF IsDir(dstTree, MTop.dst) THEN Append(MTop.dst, n)
                     ELSE MTop.dst
       IN /\ ~IsDir(srcTree, from)
          /\ IF IsDir(dstTree, Parent(target)) /\ ~IsDir(dstTree, target)
             THEN /\ dstTree' = (target :> srcTree[from]) @@ dstTree
                  /\ mstack' = [mstack EXCEPT ![Len(mstack)].todo = @ \ {n}]
                  /\ UNCHANGED mstatus
             ELSE /\ mstatus' = "error"
                  /\ UNCHANGED <<dstTree, mstack>>
  /\ UNCHANGED <<buildVars, reportVars, srcTree>>

\* the loop of line 135 is over
MergeReturn ==
  /\ mstatus = "running" /\ mstack # <<>> /\ MTop.todo = {}
  /\ mstack' = SubSeq(mstack, 1, Len(mstack) - 1)
  /\ mstatus' = IF Len(mstack) = 1 THEN "done" ELSE "running"
  /\ UNCHANGED <<buildVars, reportVars, srcTree, dstTree>>

NextMerge == MergeDir \/ MergeFile \/ MergeReturn

SpecMerge == InitMerge /\ [][NextMerge]_vars

\* C5: merge_trees of a tree into an empty directory ends with the
\* destination holding every directory and every file of the source at the
\* same relative path, and nothing else.
C5_ExactCopy ==
  mstatus \in {"done", "error"} => mstatus = "done" /\ dstTree = srcTree

\* ============================================================ build driver
IsPrefix(a, b) == Len(a) <= Len(b) /\ SubSeq(b, 1, Len(a)) = a

NamesOf(s) == {s[j].name : j \in 1..Len(s)}

\* the steps logged for invocation `inv` of build_repo
StepsOf(inv) == SelectSeq(log, LAMBDA e : e.inv = inv)

\* invocation `inv` of build_repo ran its install step with status 0
Installed(inv) ==
  \E j \in 1..Len(log) : log[j].inv = inv /\ log[j].cmd = "install" /\ log[j].rc = 0

\* every build_known_good frame, live or returned
KGFrames == {f \in Range(stack) \cup Range(returned) : f.fn = "kg"}

\* the frames of the call that build() makes
TopFrames == {f \in KGFrames : f.inv = 0}

\* C1: a descriptor is passed to build_repo only when every name of its deps
\* is in the built list, and a name is in the built list only after an
\* invocation of build_repo for it has run its install step successfully.
C1_DepsBuiltFirst ==
  /\ \A j \in 1..Depth :
       stack[j].fn = "br" => \A d \in stack[j].repo.deps : d \in Range(built)
  /\ \A n \in Range(built) :
       \E inv \in 1..Len(calls) : calls[inv].repo.name = n /\ Installed(inv)

C1_Witness ==
  \E j \in 1..Depth :
    /\ stack[j].fn = "br" /\ stack[j].pc = "return"
    /\ Cardinality(stack[j].repo.deps) >= 2

\* C2: build_repo is invoked at most once per repository name, and the built
\* list never holds a name twice.
C2_BuiltOnce ==
  /\ \A a, b \in 1..Len(calls) : a # b => calls[a].repo.name # calls[b].repo.name
  /\ \A a, b \in 1..Len(built) : a # b => built[a] # built[b]

\* C3: a command that returns non-zero is the last step the process takes and
\* the process has then exited with status 1; the built list holds only names
\* whose invocation ran every step through install with status 0.
C3_FailFast ==
  /\ \A j \in 1..Len(log) :
       log[j].rc # 0 => j = Len(log) /\ exitCode = 1 /\ pcMain = "exit"
  /\ \A n \in Names :
       Cardinality({x \in 1..Len(built) : built[x] = n})
         <= Cardinality({inv \in 1..Len(calls) :
                           calls[inv].repo.name = n /\ Installed(inv)})
  /\ \A n \in Range(built) :
       \E inv \in 1..Len(calls) :
         /\ calls[inv].repo.name = n
         /\ Installed(inv)
         /\ \A e \in Range(StepsOf(inv)) : e.rc = 0

C3_Witness ==
  /\ exitCode = 1 /\ built # <<>> /\ Depth >= 2
  /\ log[Len(log)].rc # 0 /\ log[Len(log)].inv > 0
  /\ log[Len(log)].cmd \in {"checkout", "prebuild", "configure", "install"}

\* C6: when the top-level manifest does not exist the run ends with status 1
\* without creating the build directory or running the aggregate configure
\* and install; when the Testing directory does not exist create_report logs
\* an error and exits with status 1 before writing a file.
C6_MissingInput ==
  /\ (pcMain # "off" /\ ~topManifest.exists) =>
       /\ TopDir \notin buildDirs
       /\ \A e \in Range(log) :
            e.inv = 0 => e.cmd \notin {"mkdir", "configure", "install"}
       /\ exitCode # 0
  /\ (rpc = "idle" /\ runs > 0 /\ ~run.testing) =>
       rexit = 1 /\ errLogged /\ ~wrote

\* C7: in one call of build_known_good the descriptors without deps are
\* passed to build_repo in manifest order, and all of them before the while
\* loop looks at any descriptor with deps; with no deps at all the call
\* builds its working set in manifest order.
NoDepsOf(s) == SelectSeq(s, LAMBDA r : ~r.hasDeps)

FrameOrder(f) ==
  /\ IsPrefix(NoDepsOf(f.mine), NoDepsOf(f.work))
  /\ f.pc = "for" => NoDepsOf(f.mine) = f.mine
  /\ f.pc \in {"while", "pass"} => IsPrefix(NoDepsOf(f.work), f.mine)
  /\ (f \in Range(returned) /\ f.pc = "while" /\ NoDepsOf(f.work) = f.work)
       => f.mine = f.work

C7_NoDepsFirst == \A f \in KGFrames : FrameOrder(f)

C7_Witness ==
  \E f \in Range(returned) :
    /\ f.fn = "kg" /\ Len(f.work) = 2 /\ Len(f.mine) = 2
    /\ f.work[1].hasDeps /\ ~f.work[2].hasDeps
    /\ f.mine[1] = f.work[2]

\* C8: with every deps name naming a descriptor of the same working set, an
\* acyclic deps graph and no failing command, the call that build() makes
\* returns with nothing pending and its whole working set in the built list.
WellFormed(m) ==
  LET w == PlatformFilter(m.repos)
  IN /\ \A j \in 1..Len(w) : w[j].deps \subseteq NamesOf(w)
     /\ \E rank \in [NamesOf(w) -> 1..Len(w)] :
          \A j \in 1..Len(w) : \A d \in w[j].deps : rank[d] < rank[w[j].name]

WellFormedInput ==
  pcMain # "off" /\ topManifest.exists
  /\ WellFormed(topManifest) /\ WellFormed(nestedManifest)

CommandFailed == \E e \in Range(log) : e.rc # 0

TopReturned ==
  \E f \in Range(returned) :
    /\ f.inv = 0 /\ f.repos = <<>>
    /\ NamesOf(f.work) \subseteq Range(built)

C8_Terminates == WellFormedInput ~> (TopReturned \/ CommandFailed)

C8_Witness ==
  /\ WellFormedInput /\ ~CommandFailed /\ TopReturned
  /\ \E f \in Range(returned) : f.inv = 0 /\ f.passes >= 2 /\ Len(f.mine) >= 2

\* C9 as stated: once the call that build() makes has left its while loop,
\* no descriptor of its working set names a dependency outside the built
\* list (the built list no longer changes after that call returns).
C9_NeverTerminates ==
  \A f \in Range(returned) :
    (f.inv = 0 /\ f.pc = "while") =>
       \A j \in 1..Len(f.work) : f.work[j].deps \subseteq Range(built)

\* C9 amended: a descriptor naming a dependency that is not in the built list
\* is never passed to build_repo by that call, and the call leaves its while
\* loop only if the descriptor's own name was put in the built list by the
\* build of another descriptor of that name (one a nested manifest lists).
BuiltElsewhere(n) ==
  /\ n \in Range(built)
  /\ \E inv \in 1..Len(calls) : calls[inv].repo.name = n /\ Installed(inv)

C9_Amended ==
  \A f \in TopFrames :
    \A j \in 1..Len(f.work) :
      ~(f.work[j].deps \subseteq Range(built)) =>
         /\ f.work[j] \notin Range(f.mine)
         /\ f \in Range(returned) => BuiltElsewhere(f.work[j].name)

C9_Witness ==
  /\ exitCode = Running /\ Depth = 1
  /\ stack[1].pc = "pass" /\ stack[1].passes >= MaxPasses
  /\ \E j \in 1..Len(stack[1].repos) :
       ~(stack[1].repos[j].deps \subseteq Range(built))
  /\ built # <<>>

\* C10: every invocation of build_repo takes its steps in the order clone,
\* checkout, the prebuild commands in list order, the nested manifest, the
\* build directory, configure, install; each once, each only after the one
\* before it returned 0, and the builds of the nested manifest lie between
\* the last prebuild command and the configure step.
Step(cmd, n) == [cmd |-> cmd, n |-> n]

Expected(repo) ==
  <<Step("clone", 0), Step("checkout", 0)>>
  \o [k \in 1..repo.prebuild |-> Step("prebuild", k)]
  \o <<Step("known_good", 0), Step("mkdir", 0), Step("configure", 0),
       Step("install", 0)>>

Taken(inv) ==
  LET steps == StepsOf(inv)
  IN [j \in 1..Len(steps) |-> Step(steps[j].cmd, steps[j].n)]

PosOf(inv, cmd) == {j \in 1..Len(log) : log[j].inv = inv /\ log[j].cmd = cmd}

C10_StepOrder ==
  \A inv \in 1..Len(calls) :
    /\ IsPrefix(Taken(inv), Expected(calls[inv].repo))
    /\ \A j \in 1..Len(StepsOf(inv)) - 1 : StepsOf(inv)[j].rc = 0
    /\ calls[inv].parent # 0 =>
         \A j \in 1..Len(log) :
           log[j].inv = inv =>
             /\ \E a \in PosOf(calls[inv].parent, "known_good") : a < j
             /\ \A a \in PosOf(calls[inv].parent, "prebuild") : a < j
             /\ \A a \in PosOf(calls[inv].parent, "mkdir") : j < a

C10_Witness ==
  \E inv \in 1..Len(calls) :
    /\ calls[inv].repo.prebuild >= 2
    /\ Taken(inv) = Expected(calls[inv].repo)
    /\ Installed(inv)
    /\ \E sub \in 1..Len(calls) : calls[sub].parent = inv /\ Installed(sub)
====
